---- MODULE Spec2Model ----
(***************************************************************************)
(* A model of demo.py of infrahub-demo-edge: the BGP session               *)
(* reconciliation loop (_manage_bgp_session), the extraction of a          *)
(* neighbor record from a gNMI path update                                 *)
(* (extract_config_from_device_session) and the branch-scoped commands     *)
(* (_change_admin_status, _change_circuit_status).                         *)
(*                                                                         *)
(* Strings that the code parses or builds (gNMI paths, the keys of an      *)
(* update's value) are sequences of tokens; a neighbor address is the      *)
(* one-token string <<a>>.                                                 *)
(***************************************************************************)
EXTENDS Integers, Sequences, FiniteSets, TLC

\* ------------------------------------------------------------------ bounds
MaxAddr == 2
MaxCycles == 2
MaxSegments == 3
MaxCalls == 2
MaxIds == 2

AddrPool == <<"10.0.0.1", "10.0.0.2", "10.0.0.3", "10.0.0.4">>
Addrs == {AddrPool[k] : k \in 1..MaxAddr}
\* A config is an opaque value that the code only compares: two of them give every
\* outcome of a comparison.
Configs == {"cfgA", "cfgB"}

\* Python's None, and a neighbor the device does not have.
None == "None"
Absent == "absent"

VARIABLES
    \* the collaborators
    sot,                  \* source of truth: the device's intended neighbor list
    device,               \* the device: address -> stored config, None, or Absent
    \* _manage_bgp_session
    pc,                   \* position of the loop
    raisedIn,             \* the phase whose exception ended the loop, or None
    cycle,                \* number of the current cycle
    infrahub_bgp_config,  \* line 1023
    device_sessions,      \* line 1027
    device_bgp_config,    \* line 1029
    update,               \* line 1038, reassigned at 1050 and 1058
    create,               \* line 1039
    i,                    \* index of intended_session (line 1041)
    j,                    \* index of existing_session (line 1043)
    found,                \* line 1042
    sent,                 \* gc.set calls of this cycle, in order
    events,               \* console.log lines of this cycle, in order
    stable,               \* the last cycle completed and sot is as it fetched it
    prevOps,              \* number of gc.set calls of the last completed cycle
    gc,                   \* the device connections: how many were opened, how many are open
    \* extract_config_from_device_session, called on its own
    arg,                  \* the session it is called with
    session_config,       \* the value returned
    xpc,                  \* "called", "returned" or "raised"
    \* the source of truth's branches
    mainData,             \* the data of main
    branches,             \* branch name -> "absent", "open" or "merged"
    branchData,           \* branch name -> the data of the branch
    \* _change_admin_status, _change_circuit_status and _update_description
    cmd,                  \* the command invoked
    status,               \* the status argument of change_circuit_status
    description,          \* the description argument of update_description
    branch,               \* the branch argument of update_description
    txpc,                 \* position in the command
    queried,              \* interface_status (line 441) or current_status (line 495)
    new_branch_name,      \* lines 449 and 504
    requests,             \* the requests of this invocation and their answers, in order
    console,              \* the lines this invocation printed, in order
    outcome,              \* how the invocation ended
    calls,                \* number of invocations so far
    generated             \* the branch names generated so far, over all invocations

loopVars == <<sot, device, pc, raisedIn, cycle, infrahub_bgp_config,
              device_sessions, device_bgp_config, update, create, i, j, found,
              sent, events, stable, prevOps, gc>>

extractVars == <<arg, session_config, xpc>>

txVars == <<mainData, branches, branchData, cmd, status, description, branch, txpc, queried, new_branch_name,
            requests, console, outcome, calls, generated>>

vars == <<loopVars, extractVars, txVars>>

\* ------------------------------------------------------------- path strings
\* line 26
OC_BGP_BASE_PATH ==
    <<"openconfig:/network-instances/network-instance", "[", "name=", "default", "]",
      "/protocols/protocol", "[", "name=", "BGP", "]", "/bgp">>

\* line 27
OC_BGP_NEIGHBOR_PATH == OC_BGP_BASE_PATH \o <<"/neighbors/neighbor">>

\* the f-string of lines 1051 and 1059
NeighborPath(address) ==
    OC_BGP_NEIGHBOR_PATH \o <<"[", "neighbor-address=">> \o address \o <<"]">>

\* keys of an update's value
CONFIG_KEY == <<"openconfig-network-instance", ":config">>
STATE_KEY == <<"openconfig-network-instance", ":state">>

\* ---------------------------------------------------------------- extractor
NoMatch == <<"no match">>

\* re.compile(r"\[neighbor\-address=(.*)\]").search(path), line 364-365: the
\* leftmost "[neighbor-address=", then (.*) greedy up to the last "]" after it.
\* The value is group(1), or NoMatch when search returns None.
RegexSearch(path) ==
    LET starts == {s \in 1..Len(path) - 2 :
                      /\ path[s] = "["
                      /\ path[s + 1] = "neighbor-address="
                      /\ \E e \in s + 2..Len(path) : path[e] = "]"}
    IN  IF starts = {} THEN NoMatch
        ELSE LET s == CHOOSE x \in starts : \A y \in starts : x <= y
                 e == CHOOSE x \in s + 2..Len(path) :
                         /\ path[x] = "]"
                         /\ \A y \in s + 2..Len(path) : path[y] = "]" => y <= x
             IN  SubSeq(path, s + 2, e - 1)

\* a test for the key being ":config" itself
IsConfigKeyExact(key) == key = <<":config">>

\* ":config" in key, line 370
IsConfigKey(key) == \E k \in 1..Len(key) : key[k] = ":config"

\* the loop of lines 369-371 over val.items(), a sequence of <<key, value>>:
\* the last key containing ":config" wins, None when there is none
RECURSIVE ScanConfig(_, _)
ScanConfig(items, acc) ==
    IF items = <<>> THEN acc
    ELSE ScanConfig(Tail(items),
                    IF IsConfigKey(Head(items)[1]) THEN Head(items)[2] ELSE acc)

NeighborConfig(address, config) == [address |-> address, config |-> config]

Raised == [address |-> <<"AttributeError">>, config |-> "raised"]

\* an extractor that gives an update without the key an empty address
extract_keyless_as_empty(session) ==
    LET session_id == RegexSearch(session.path)
    IN  NeighborConfig(IF session_id = NoMatch THEN <<>> ELSE session_id,
                       ScanConfig(session.val, None))

\* lines 363-373; Raised when result is None and result.group(1) raises
extract_config_from_device_session(session) ==
    LET session_id == RegexSearch(session.path)
    IN  IF session_id = NoMatch THEN Raised
        ELSE NeighborConfig(session_id, ScanConfig(session.val, None))

\* ------------------------------------------------------------ collaborators
\* The names uuid4 can give a branch: the prefix of the command and the first 8
\* characters of the UUID.
Prefixes == {"update-intf-", "update-circuit-"}
IdPool == <<"1f0a3c5e", "9b2d4f60", "c7e81a2b", "44d09e7f">>
Ids == {IdPool[k] : k \in 1..MaxIds}
\* the name of the default branch of execute_query (line 376), a one-token string
Main == <<"main">>
BranchNames == {<<p, u>> : p \in Prefixes, u \in Ids}

Statuses == {"active", "maintenance"}
Descriptions == {"uplink", "to-core"}

\* The value the device reports for a neighbor whose stored config is c.
DeviceVal(c) ==
    IF c = None THEN << <<STATE_KEY, "established">> >>
    ELSE << <<STATE_KEY, "established">>, <<CONFIG_KEY, c>> >>

\* gc.get(path=[OC_BGP_NEIGHBOR_PATH]), line 1026-1027: one update per neighbor of
\* the device, each at the neighbor's own list entry.
RECURSIVE DeviceGet(_, _)
DeviceGet(dev, k) ==
    IF k > MaxAddr THEN <<>>
    ELSE (IF dev[AddrPool[k]] = Absent THEN <<>>
          ELSE <<[path |-> NeighborPath(<<AddrPool[k]>>), val |-> DeviceVal(dev[AddrPool[k]])]>>)
         \o DeviceGet(dev, k + 1)

\* An update that lacks the [neighbor-address=...] key: the list itself.
KeylessUpdate == [path |-> OC_BGP_NEIGHBOR_PATH, val |-> <<>>]

\* What the device can answer the get with: its neighbors, with or without an update
\* that lacks the key among them.
DeviceResponses(dev) ==
    LET r == DeviceGet(dev, 1)
    IN  {r} \cup {SubSeq(r, 1, k) \o <<KeylessUpdate>> \o SubSeq(r, k + 1, Len(r)) :
                   k \in 0..Len(r)}

\* The neighbor a set path addresses, as the device reads it: the key value of its
\* [neighbor-address=...] segment.
TargetAddress(path) ==
    LET s == CHOOSE x \in 1..Len(path) : path[x] = "neighbor-address="
    IN  path[s + 1]

\* gc.set(update=[(path, payload)]) accepted by the device, lines 1054 and 1062
DeviceSet(dev, op) ==
    [dev EXCEPT ![TargetAddress(op[1])] = op[2].config]

\* What the source of truth can hold: lists of neighbors with distinct addresses.
IntendedLists ==
    UNION {{s \in [1..n -> {NeighborConfig(<<a>>, c) : a \in Addrs, c \in Configs}] :
              \A x, y \in 1..n : x # y => s[x].address # s[y].address}
           : n \in 0..MaxAddr}

\* ------------------------------------------------------- _manage_bgp_session
\* [extract_config_from_device_session(session) for session in device_sessions]
ExtractAll(sessions) ==
    [k \in 1..Len(sessions) |-> extract_config_from_device_session(sessions[k])]

\* lines 1044 and 1047
\* a test that takes every session of the device for the intended neighbor
SameNeighborAny(intended_session, existing_session) == TRUE

SameNeighbor(intended_session, existing_session) ==
    intended_session.address = existing_session.address

\* a comparison that takes every found session for a differing one
ConfigDiffersAlways(intended_session, existing_session) == TRUE

\* line 1049
ConfigDiffers(intended_session, existing_session) ==
    intended_session.config # existing_session.config

\* a payload that carries no config
SetUpdateNoConfig(intended_session) ==
    <<NeighborPath(intended_session.address), [config |-> None]>>

\* a target path keyed by the first neighbor of the device instead of the intended one
SetUpdateFirstNeighbor(intended_session) ==
    <<NeighborPath(IF Len(device_bgp_config) > 0 THEN device_bgp_config[1].address
                   ELSE intended_session.address),
      [config |-> intended_session.config]>>

\* the tuple of lines 1050-1053 and 1058-1061
SetUpdate(intended_session) ==
    <<NeighborPath(intended_session.address), [config |-> intended_session.config]>>

\* an update list that keeps what the cycle before left in it
UpdateCarriedOver(previous) == previous

\* line 1038: update = []
UpdateAtCycleStart(previous) == <<>>

\* line 1065
NothingToDo(c, u) == Len(c) = 0 /\ Len(u) = 0

\* a gc.set call of line 1054 or 1062: the list it is given holds the one tuple
SetCall(idx, op, kind, ok) ==
    [idx |-> idx, op |-> op, update |-> <<op>>, kind |-> kind, ok |-> ok]

LogLine(kind, address) == [kind |-> kind, address |-> address]

\* the intended sessions taken from the last to the first
IntendedReversed ==
    [k \in 1..Len(infrahub_bgp_config) |->
        infrahub_bgp_config[Len(infrahub_bgp_config) + 1 - k]]

Intended == infrahub_bgp_config
Existing == device_bgp_config

\* a with block that leaves its connection open
ExitLeaks(conn) == conn

\* line 1025: with gNMIclient(**device_conn) as gc opens a connection
Enter(conn) == [opened |-> conn.opened + 1, open |-> conn.open + 1]

\* the end of the with block of line 1025, reached after line 1066 or by an
\* exception raised inside the block, closes it
Exit(conn) == [conn EXCEPT !.open = @ - 1]

Raise(phase) ==
    /\ pc' = "RAISED"
    /\ raisedIn' = phase

\* line 1022-1023, the request answered
FetchIntendedOk ==
    /\ pc = "FETCH_INTENDED"
    /\ infrahub_bgp_config' = sot
    /\ pc' = "FETCH_ACTUAL"
    /\ UNCHANGED <<sot, device, raisedIn, cycle, device_sessions, device_bgp_config,
                   update, create, i, j, found, sent, events, stable, prevOps>>
    /\ UNCHANGED <<gc, extractVars, txVars>>

\* line 406: raise_for_status (or the transport) raises, nothing catches it
FetchIntendedRaise ==
    /\ pc = "FETCH_INTENDED"
    /\ Raise("FETCH_INTENDED")
    /\ UNCHANGED <<sot, device, cycle, infrahub_bgp_config, device_sessions,
                   device_bgp_config, update, create, i, j, found, sent, events, stable, prevOps>>
    /\ UNCHANGED <<gc, extractVars, txVars>>

\* lines 1025-1039, every update extracted
FetchActualOk ==
    /\ pc = "FETCH_ACTUAL"
    /\ device_sessions' \in DeviceResponses(device)
    /\ device_bgp_config' = ExtractAll(device_sessions')
    /\ \A k \in 1..Len(device_bgp_config') : device_bgp_config'[k] # Raised
    /\ update' = UpdateAtCycleStart(update)
    /\ create' = <<>>
    /\ i' = 1
    /\ pc' = "OUTER"
    /\ UNCHANGED <<sot, device, raisedIn, cycle, infrahub_bgp_config, j, found,
                   sent, events, stable, prevOps>>
    /\ gc' = Enter(gc)
    /\ UNCHANGED <<extractVars, txVars>>

\* line 1025-1026: connecting to the device raises, or the get raises and the
\* with block closes the connection
FetchActualRaise ==
    /\ pc = "FETCH_ACTUAL"
    /\ Raise("FETCH_ACTUAL")
    /\ UNCHANGED <<sot, device, cycle, infrahub_bgp_config, device_sessions,
                   device_bgp_config, update, create, i, j, found, sent, events, stable, prevOps>>
    /\ gc' \in {gc, Exit(Enter(gc))}
    /\ UNCHANGED <<extractVars, txVars>>

\* line 1031: extraction of an update of the response raises at line 366
FetchActualMalformed ==
    /\ pc = "FETCH_ACTUAL"
    /\ device_sessions' \in DeviceResponses(device)
    /\ \E k \in 1..Len(device_sessions') : ExtractAll(device_sessions')[k] = Raised
    /\ Raise("EXTRACT")
    /\ UNCHANGED <<sot, device, cycle, infrahub_bgp_config, device_bgp_config,
                   update, create, i, j, found, sent, events, stable, prevOps>>
    /\ gc' = Exit(Enter(gc))
    /\ UNCHANGED <<extractVars, txVars>>

\* line 1041-1042: the next intended session
OuterEnter ==
    /\ pc = "OUTER"
    /\ i <= Len(Intended)
    /\ found' = FALSE
    /\ j' = 1
    /\ pc' = "INNER"
    /\ UNCHANGED <<sot, device, raisedIn, cycle, infrahub_bgp_config, device_sessions,
                   device_bgp_config, update, create, i, sent, events, stable, prevOps>>
    /\ UNCHANGED <<gc, extractVars, txVars>>

\* line 1044-1045: another neighbor
InnerContinue ==
    /\ pc = "INNER"
    /\ j <= Len(Existing)
    /\ ~SameNeighbor(Intended[i], Existing[j])
    /\ j' = j + 1
    /\ UNCHANGED <<sot, device, pc, raisedIn, cycle, infrahub_bgp_config, device_sessions,
                   device_bgp_config, update, create, i, found, sent, events, stable, prevOps>>
    /\ UNCHANGED <<gc, extractVars, txVars>>

\* lines 1047-1049: the neighbor, with the intended config
InnerMatch ==
    /\ pc = "INNER"
    /\ j <= Len(Existing)
    /\ SameNeighbor(Intended[i], Existing[j])
    /\ ~ConfigDiffers(Intended[i], Existing[j])
    /\ found' = TRUE
    /\ j' = j + 1
    /\ UNCHANGED <<sot, device, pc, raisedIn, cycle, infrahub_bgp_config, device_sessions,
                   device_bgp_config, update, create, i, sent, events, stable, prevOps>>
    /\ UNCHANGED <<gc, extractVars, txVars>>

\* lines 1047-1055: the neighbor, with another config; the set is accepted
InnerUpdateOk ==
    /\ pc = "INNER"
    /\ j <= Len(Existing)
    /\ SameNeighbor(Intended[i], Existing[j])
    /\ ConfigDiffers(Intended[i], Existing[j])
    /\ found' = TRUE
    /\ update' = SetUpdate(Intended[i])
    /\ device' = DeviceSet(device, update')
    /\ sent' = Append(sent, SetCall(i, update', "UPDATED", TRUE))
    /\ events' = Append(events, LogLine("UPDATED", Intended[i].address))
    /\ j' = j + 1
    /\ UNCHANGED <<sot, pc, raisedIn, cycle, infrahub_bgp_config, device_sessions,
                   device_bgp_config, create, i, stable, prevOps>>
    /\ UNCHANGED <<gc, extractVars, txVars>>

\* line 1054: gc.set raises, nothing catches it
InnerUpdateRaise ==
    /\ pc = "INNER"
    /\ j <= Len(Existing)
    /\ SameNeighbor(Intended[i], Existing[j])
    /\ ConfigDiffers(Intended[i], Existing[j])
    /\ found' = TRUE
    /\ update' = SetUpdate(Intended[i])
    /\ sent' = Append(sent, SetCall(i, update', "UPDATED", FALSE))
    /\ Raise("APPLY")
    /\ UNCHANGED <<sot, device, cycle, infrahub_bgp_config, device_sessions,
                   device_bgp_config, create, i, j, events, stable, prevOps>>
    /\ gc' = Exit(gc)
    /\ UNCHANGED <<extractVars, txVars>>

\* line 1057, found: on to the next intended session
InnerDoneFound ==
    /\ pc = "INNER"
    /\ j > Len(Existing)
    /\ found
    /\ i' = i + 1
    /\ pc' = "OUTER"
    /\ UNCHANGED <<sot, device, raisedIn, cycle, infrahub_bgp_config, device_sessions,
                   device_bgp_config, update, create, j, found, sent, events, stable, prevOps>>
    /\ UNCHANGED <<gc, extractVars, txVars>>

\* lines 1057-1063: not found; the set is accepted
AddOk ==
    /\ pc = "INNER"
    /\ j > Len(Existing)
    /\ ~found
    /\ update' = SetUpdate(Intended[i])
    /\ device' = DeviceSet(device, update')
    /\ sent' = Append(sent, SetCall(i, update', "ADDED", TRUE))
    /\ events' = Append(events, LogLine("ADDED", Intended[i].address))
    /\ i' = i + 1
    /\ pc' = "OUTER"
    /\ UNCHANGED <<sot, raisedIn, cycle, infrahub_bgp_config, device_sessions,
                   device_bgp_config, create, j, found, stable, prevOps>>
    /\ UNCHANGED <<gc, extractVars, txVars>>

\* line 1062: gc.set raises, nothing catches it
AddRaise ==
    /\ pc = "INNER"
    /\ j > Len(Existing)
    /\ ~found
    /\ update' = SetUpdate(Intended[i])
    /\ sent' = Append(sent, SetCall(i, update', "ADDED", FALSE))
    /\ Raise("APPLY")
    /\ UNCHANGED <<sot, device, cycle, infrahub_bgp_config, device_sessions,
                   device_bgp_config, create, i, j, found, events, stable, prevOps>>
    /\ gc' = Exit(gc)
    /\ UNCHANGED <<extractVars, txVars>>

\* lines 1065-1066, after the last intended session
Report ==
    /\ pc = "OUTER"
    /\ i > Len(Intended)
    /\ events' = IF NothingToDo(create, update)
                 THEN Append(events, LogLine("ALL_PRESENT", <<>>))
                 ELSE events
    /\ pc' = "SLEEP"
    /\ UNCHANGED <<sot, device, raisedIn, cycle, infrahub_bgp_config, device_sessions,
                   device_bgp_config, update, create, i, j, found, sent, stable, prevOps>>
    /\ gc' = Exit(gc)
    /\ UNCHANGED <<extractVars, txVars>>

\* line 1068 and back to line 1014. The cycle's locals are dead from here on (each
\* is assigned again before it is read) and are cleared, but for update and create,
\* which wait for lines 1038-1039; prevOps keeps the number of sets the cycle sent.
Sleep ==
    /\ pc = "SLEEP"
    /\ cycle < MaxCycles
    /\ cycle' = cycle + 1
    /\ prevOps' = Len(sent)
    /\ sent' = <<>>
    /\ events' = <<>>
    /\ stable' = TRUE
    /\ infrahub_bgp_config' = <<>>
    /\ device_sessions' = <<>>
    /\ device_bgp_config' = <<>>
    /\ i' = 1
    /\ j' = 1
    /\ found' = FALSE
    /\ pc' = "FETCH_INTENDED"
    /\ UNCHANGED <<sot, device, raisedIn, update, create>>
    /\ UNCHANGED <<gc, extractVars, txVars>>

\* Between two cycles somebody edits the intended neighbors in the source of truth.
SotEdit ==
    /\ pc = "FETCH_INTENDED"
    /\ stable
    /\ \E s \in IntendedLists : s # sot /\ sot' = s
    /\ stable' = FALSE
    /\ prevOps' = 0
    /\ UNCHANGED <<device, pc, raisedIn, cycle, infrahub_bgp_config, device_sessions,
                   device_bgp_config, update, create, i, j, found, sent, events>>
    /\ UNCHANGED <<gc, extractVars, txVars>>

\* The loop not started, with the source of truth and the device as given.
LoopInit ==
    /\ pc = "FETCH_INTENDED"
    /\ raisedIn = None
    /\ cycle = 1
    /\ infrahub_bgp_config = <<>>
    /\ device_sessions = <<>>
    /\ device_bgp_config = <<>>
    /\ update = <<>>
    /\ create = <<>>
    /\ i = 1
    /\ j = 1
    /\ found = FALSE
    /\ sent = <<>>
    /\ events = <<>>
    /\ stable = FALSE
    /\ prevOps = 0
    /\ gc = [opened |-> 0, open |-> 0]

\* The extractor not called.
ExtractIdle ==
    /\ arg = [path |-> <<>>, val |-> <<>>]
    /\ session_config = None
    /\ xpc = "idle"

\* No command invoked, no branch but main.
TxIdle ==
    /\ mainData \in [enabled : BOOLEAN, status : Statuses, description : Descriptions]
    /\ branches = [n \in BranchNames |-> "absent"]
    /\ branchData = [n \in BranchNames |-> mainData]
    /\ cmd = None
    /\ status = None
    /\ description = None
    /\ branch = None
    /\ txpc = "idle"
    /\ queried = None
    /\ new_branch_name = None
    /\ requests = <<>>
    /\ console = <<>>
    /\ outcome = None
    /\ calls = 0
    /\ generated = <<>>

Init ==
    /\ sot \in IntendedLists
    /\ device \in [Addrs -> Configs \cup {None, Absent}]
    /\ LoopInit
    /\ ExtractIdle
    /\ TxIdle
    /\ mainData = [enabled |-> TRUE, status |-> "active", description |-> "uplink"]

Next ==
    \/ FetchIntendedOk
    \/ FetchIntendedRaise
    \/ FetchActualOk
    \/ FetchActualRaise
    \/ FetchActualMalformed
    \/ OuterEnter
    \/ InnerContinue
    \/ InnerMatch
    \/ InnerUpdateOk
    \/ InnerUpdateRaise
    \/ InnerDoneFound
    \/ AddOk
    \/ AddRaise
    \/ Report
    \/ Sleep
    \/ SotEdit

Spec == Init /\ [][Next]_vars

\* ==================================================== reconciliation loop
IntendedAddrs == {Intended[k].address : k \in 1..Len(Intended)}
ExistingAddrs == {Existing[k].address : k \in 1..Len(Existing)}

\* the intended session k against the snapshot of this cycle
OnDevice(k) == Intended[k].address \in ExistingAddrs
ConfigEqual(k) ==
    \E e \in 1..Len(Existing) :
        /\ Existing[e].address = Intended[k].address
        /\ Existing[e].config = Intended[k].config

\* what the cycle logged for an address, and the sets it sent to its path
KindsLogged(a) ==
    LET lines == SelectSeq(events, LAMBDA l : l.address = a)
    IN  [k \in 1..Len(lines) |-> lines[k].kind]
CallsTo(a) == SelectSeq(sent, LAMBDA c : c.op[1] = NeighborPath(a))

IsMatched(k) ==
    /\ OnDevice(k) /\ ConfigEqual(k)
    /\ KindsLogged(Intended[k].address) = <<>>
    /\ CallsTo(Intended[k].address) = <<>>
IsUpdated(k) ==
    /\ OnDevice(k) /\ ~ConfigEqual(k)
    /\ KindsLogged(Intended[k].address) = <<"UPDATED">>
IsMissing(k) ==
    /\ ~OnDevice(k)
    /\ KindsLogged(Intended[k].address) = <<"ADDED">>

CycleCompleted == pc = "SLEEP"

\* C2: a failure to fetch the intended set or the device snapshot never ends the
\* loop (the cycle is abandoned and the loop goes on to sleep).
C2_FetchFailureKeepsLoop ==
    ~(pc = "RAISED" /\ raisedIn \in {"FETCH_INTENDED", "FETCH_ACTUAL"})

\* C3: when a cycle has compared every intended session, each intended address is
\* in exactly one of matched (on the device, same config, nothing sent or logged),
\* updated (on the device, other config, UPDATED) and missing (not on the device,
\* ADDED), and an address only the device has is logged and targeted by nothing.
C3_Partition ==
    CycleCompleted =>
        /\ \A k \in 1..Len(Intended) :
              Cardinality({c \in {"matched", "updated", "missing"} :
                              \/ c = "matched" /\ IsMatched(k)
                              \/ c = "updated" /\ IsUpdated(k)
                              \/ c = "missing" /\ IsMissing(k)}) = 1
        /\ \A a \in ExistingAddrs \ IntendedAddrs :
              KindsLogged(a) = <<>> /\ CallsTo(a) = <<>>

C3_Witness ==
    /\ CycleCompleted
    /\ \E k \in 1..Len(Intended) : IsMatched(k)
    /\ \E k \in 1..Len(Intended) : IsUpdated(k) \/ IsMissing(k)

\* C4: a completed cycle has sent exactly |updated| + |missing| sets: one for each
\* intended session that is missing from or differs on the device, none for a
\* matched one, each to the path keyed by the session's address with
\* {config: its intended config}.
C4_OneSetPerDifference ==
    CycleCompleted =>
        LET needed == {k \in 1..Len(Intended) : ~OnDevice(k) \/ ~ConfigEqual(k)}
        IN  /\ Len(sent) = Cardinality({k \in needed : OnDevice(k)})
                           + Cardinality({k \in needed : ~OnDevice(k)})
            /\ \A k \in needed :
                  Cardinality({n \in 1..Len(sent) : sent[n].idx = k}) = 1
            /\ \A n \in 1..Len(sent) :
                  /\ sent[n].idx \in needed
                  /\ sent[n].op[1] = OC_BGP_NEIGHBOR_PATH
                                       \o <<"[", "neighbor-address=">>
                                       \o Intended[sent[n].idx].address \o <<"]">>
                  /\ sent[n].op[2] = [config |-> Intended[sent[n].idx].config]

C4_Witness ==
    /\ CycleCompleted
    /\ \E k \in 1..Len(Intended) : IsMatched(k)
    /\ \E n \in 1..Len(sent) : sent[n].kind = "UPDATED"

\* C5: once the cycle is over, a set that failed has not kept any other intended
\* session that is missing or differs from getting its own set attempted.
C5_FailureDoesNotStopSiblings ==
    (pc \in {"SLEEP", "RAISED"} /\ \E n \in 1..Len(sent) : ~sent[n].ok) =>
        \A k \in 1..Len(Intended) :
            (~OnDevice(k) \/ ~ConfigEqual(k)) => \E n \in 1..Len(sent) : sent[n].idx = k

\* C7: in a cycle that follows a completed cycle (every set of which the device
\* accepted) with the intended set unchanged, no set is sent.
C7_Idempotent == stable => sent = <<>>

C7_Witness ==
    /\ stable
    /\ CycleCompleted
    /\ prevOps > 0
    /\ Len(Intended) > 0

\* C8: no step of the loop changes the device's config of a neighbor that the
\* device has and the intended set lacks, and no set is sent to its path.
C8_AdditiveOnly ==
    [][\A a \in Addrs :
          (device[a] # Absent /\ <<a>> \notin IntendedAddrs) =>
              /\ device'[a] = device[a]
              /\ \A n \in 1..Len(sent') : TargetAddress(sent'[n].op[1]) # a]_vars

C8_Witness ==
    /\ CycleCompleted
    /\ Len(sent) > 0
    /\ \E a \in Addrs : device[a] # Absent /\ <<a>> \notin IntendedAddrs

\* ------------------------------------- extract_config_from_device_session
\* The segments a path is made of: an element, a keyed element of another list, and
\* the neighbor key.
Segments ==
    {<<"/neighbors/neighbor">>, <<"[", "name=", "default", "]">>}
        \cup {<<"[", "neighbor-address=", a, "]">> : a \in Addrs}

RECURSIVE Flatten(_)
Flatten(segs) == IF segs = <<>> THEN <<>> ELSE Head(segs) \o Flatten(Tail(segs))

Paths == {Flatten(segs) : segs \in UNION {[1..n -> Segments] : n \in 0..MaxSegments}}

\* The values of an update: up to two items with distinct keys.
Items == {<<k, c>> : k \in {CONFIG_KEY, STATE_KEY}, c \in Configs}
Vals ==
    {<<>>} \cup {<<x>> : x \in Items}
           \cup {v \in {<<x, y>> : x \in Items, y \in Items} : v[1][1] # v[2][1]}

ExtractInit ==
    /\ arg \in [path : Paths, val : Vals]
    /\ session_config = None
    /\ xpc = "called"
    /\ sot = <<>>
    /\ device = [a \in Addrs |-> Absent]
    /\ LoopInit
    /\ TxIdle
    /\ mainData = [enabled |-> TRUE, status |-> "active", description |-> "uplink"]

\* line 373: the record is returned
ExtractReturn ==
    /\ xpc = "called"
    /\ extract_config_from_device_session(arg) # Raised
    /\ session_config' = extract_config_from_device_session(arg)
    /\ xpc' = "returned"
    /\ UNCHANGED <<arg, loopVars, txVars>>

\* line 366: result is None, result.group raises
ExtractRaise ==
    /\ xpc = "called"
    /\ extract_config_from_device_session(arg) = Raised
    /\ xpc' = "raised"
    /\ UNCHANGED <<arg, session_config, loopVars, txVars>>

ExtractNext == ExtractReturn \/ ExtractRaise

SpecExtract == ExtractInit /\ [][ExtractNext]_vars

\* the values X of the [neighbor-address=X] segments of a path
NeighborKeys(path) ==
    {path[s + 2] : s \in {t \in 1..Len(path) - 3 :
                             /\ path[t] = "["
                             /\ path[t + 1] = "neighbor-address="
                             /\ path[t + 3] = "]"}}

\* the values under the keys of val that contain ":config"
ConfigValues(val) == {val[k][2] : k \in {n \in 1..Len(val) : IsConfigKey(val[n][1])}}

\* C10: called with a path that has a [neighbor-address=X] segment, wherever it
\* sits, and a value with a key containing ":config", the extractor returns the
\* record of address X with the value under that key as its config.
C10_ExtractsKey ==
    (xpc # "called" /\ NeighborKeys(arg.path) # {} /\ ConfigValues(arg.val) # {}) =>
        /\ xpc = "returned"
        /\ \E X \in NeighborKeys(arg.path) : session_config.address = <<X>>
        /\ session_config.config \in ConfigValues(arg.val)

\* ------------------------- _change_admin_status and _change_circuit_status
Request(kind, target, answer) == [kind |-> kind, branch |-> target, answer |-> answer]

\* The answers execute_query can get: a body with the mutation's ok true, a body
\* with ok false, a body with an errors array, and a failure that
\* raise_for_status (line 393) or the transport raises.
Bodies == {"ok", "not_ok", "errors"}

\* The answers of the service to a request on a branch in the given state: only a
\* branch that is open takes a mutation or a merge, only an absent name a create.
CreateAnswers(state) == IF state = "absent" THEN Bodies ELSE {"not_ok", "errors"}
BranchAnswers(state) == IF state = "open" THEN Bodies ELSE {"not_ok", "errors"}

\* the argument of the mutation: lines 464-467, 518-521 and 638-641
Mutated(data) ==
    IF cmd = "admin" THEN [data EXCEPT !.enabled = ~queried]
    ELSE IF cmd = "circuit" THEN [data EXCEPT !.status = status]
    ELSE [data EXCEPT !.description = description]

\* a mutation that is always sent to main
MutationBranchMain(c) == Main

\* the branch the mutation is sent to: lines 463 and 517 (branch=new_branch_name),
\* line 637 (branch=branch)
MutationBranch(c) == IF c = "description" THEN branch ELSE new_branch_name

\* the state and the data of a branch of the service, main included
StateOf(b) == IF b = Main THEN "open" ELSE branches[b]
DataOf(b) == IF b = Main THEN mainData ELSE branchData[b]

\* the service applies a mutation to the branch it was sent to
Write(b, data) ==
    IF b = Main
    THEN mainData' = data /\ UNCHANGED branchData
    ELSE branchData' = [branchData EXCEPT ![b] = data] /\ UNCHANGED mainData

\* lines 645-650: what is printed for the answer to the description mutation
UpdateReport(answer) ==
    IF answer = "errors" THEN <<"ERROR">>
    ELSE IF answer = "ok" THEN <<"SUCCESS">>
    ELSE <<>>

\* the prefix of lines 449 and 504
Prefix(c) == IF c = "admin" THEN "update-intf-" ELSE "update-circuit-"

\* lines 474-480 and 527-531: what is printed for a merge answer
MergeReport(answer) ==
    IF answer = "errors" THEN <<"ERROR">>
    ELSE IF answer = "ok" THEN <<"SUCCESS">>
    ELSE <<>>

\* a test that never finds the circuit in the status asked for
StatusUnchangedNever(current_status, wanted) == FALSE

\* line 497
StatusUnchanged(current_status, wanted) == current_status = wanted

\* lines 933-935, 939-941 and 945-947: a command is invoked. The branch given to
\* update_description, or the active branch of the repository that lines 617-619
\* put in its place, is main or any other name.
Invoke ==
    /\ txpc \in {"idle", "done"}
    /\ calls < MaxCalls
    /\ calls' = calls + 1
    /\ \E c \in {"admin", "circuit", "description"} :
          /\ cmd' = c
          /\ status' \in IF c = "circuit" THEN Statuses ELSE {None}
          /\ description' \in IF c = "description" THEN Descriptions ELSE {None}
          /\ branch' \in IF c = "description" THEN {Main} \cup BranchNames ELSE {None}
          /\ txpc' = IF c = "description" THEN "QUERY_INTERFACE" ELSE "QUERY"
    /\ queried' = None
    /\ new_branch_name' = None
    /\ requests' = <<>>
    /\ console' = <<>>
    /\ outcome' = None
    /\ UNCHANGED <<mainData, branches, branchData, generated, loopVars, extractVars>>

\* lines 434-445 and 487-501: the query on main answered with the object
QueryOk ==
    /\ txpc = "QUERY"
    /\ queried' = IF cmd = "admin" THEN mainData.enabled ELSE mainData.status
    /\ cmd = "circuit" => ~StatusUnchanged(queried', status)
    /\ requests' = Append(requests, Request("query", Main, "ok"))
    /\ console' = Append(console, "is currently")
    /\ txpc' = "CREATE"
    /\ UNCHANGED <<mainData, branches, branchData, cmd, status, description, branch, new_branch_name,
                   outcome, calls, generated, loopVars, extractVars>>

\* lines 497-499: the circuit has the status already
NothingToChange ==
    /\ txpc = "QUERY"
    /\ cmd = "circuit"
    /\ StatusUnchanged(mainData.status, status)
    /\ queried' = mainData.status
    /\ requests' = Append(requests, Request("query", Main, "ok"))
    /\ console' = Append(console, "nothing to do")
    /\ outcome' = "returned False"
    /\ txpc' = "done"
    /\ UNCHANGED <<mainData, branches, branchData, cmd, status, description, branch, new_branch_name,
                   calls, generated, loopVars, extractVars>>

\* line 393, or line 440 / 494 on a body without the object: the query raises
QueryRaise ==
    /\ txpc = "QUERY"
    /\ \E a \in {"errors", "http_error"} :
          requests' = Append(requests, Request("query", Main, a))
    /\ outcome' = "raised"
    /\ txpc' = "done"
    /\ UNCHANGED <<mainData, branches, branchData, cmd, status, description, branch, queried, new_branch_name,
                   console, calls, generated, loopVars, extractVars>>

\* lines 449-456 and 504-511: the branch_create request gets a body, which the
\* command does not look at
CreateAnswered ==
    /\ txpc = "CREATE"
    /\ \E u \in Ids, a \in Bodies :
          /\ new_branch_name' = <<Prefix(cmd), u>>
          /\ a \in CreateAnswers(branches[new_branch_name'])
          /\ requests' = Append(requests, Request("branch_create", new_branch_name', a))
          /\ branches' = IF a = "ok" THEN [branches EXCEPT ![new_branch_name'] = "open"]
                         ELSE branches
          /\ branchData' = IF a = "ok" THEN [branchData EXCEPT ![new_branch_name'] = mainData]
                           ELSE branchData
    /\ generated' = Append(generated, new_branch_name')
    /\ console' = Append(console, "Created the branch")
    /\ txpc' = "MUTATE"
    /\ UNCHANGED <<mainData, cmd, status, description, branch, queried, outcome, calls,
                   loopVars, extractVars>>

\* line 393: the branch_create request raises
CreateRaise ==
    /\ txpc = "CREATE"
    /\ \E u \in Ids :
          /\ new_branch_name' = <<Prefix(cmd), u>>
          /\ requests' = Append(requests, Request("branch_create", new_branch_name', "http_error"))
    /\ generated' = Append(generated, new_branch_name')
    /\ outcome' = "raised"
    /\ txpc' = "done"
    /\ UNCHANGED <<mainData, branches, branchData, cmd, status, description, branch, queried, console, calls,
                   loopVars, extractVars>>

\* lines 460-469 and 514-523: the mutation on the new branch gets a body, which
\* the command does not look at
MutateAnswered ==
    /\ txpc = "MUTATE"
    /\ \E a \in BranchAnswers(StateOf(MutationBranch(cmd))) :
          /\ requests' = Append(requests, Request("mutation", MutationBranch(cmd), a))
          /\ IF a = "ok"
             THEN Write(MutationBranch(cmd), Mutated(DataOf(MutationBranch(cmd))))
             ELSE UNCHANGED <<mainData, branchData>>
    /\ console' = Append(console, "Updated")
    /\ txpc' = "MERGE"
    /\ UNCHANGED <<branches, cmd, status, description, branch, queried, new_branch_name, outcome,
                   calls, generated, loopVars, extractVars>>

\* line 393: the mutation raises
MutateRaise ==
    /\ txpc = "MUTATE"
    /\ requests' = Append(requests, Request("mutation", MutationBranch(cmd), "http_error"))
    /\ outcome' = "raised"
    /\ txpc' = "done"
    /\ UNCHANGED <<mainData, branches, branchData, cmd, status, description, branch, queried, new_branch_name,
                   console, calls, generated, loopVars, extractVars>>

\* lines 473-480 and 526-531: the branch_merge request gets a body
MergeAnswered ==
    /\ txpc = "MERGE"
    /\ \E a \in BranchAnswers(branches[new_branch_name]) :
          /\ requests' = Append(requests, Request("branch_merge", new_branch_name, a))
          /\ mainData' = IF a = "ok" THEN branchData[new_branch_name] ELSE mainData
          /\ branches' = IF a = "ok" THEN [branches EXCEPT ![new_branch_name] = "merged"]
                         ELSE branches
          /\ console' = console \o MergeReport(a)
    /\ outcome' = "returned"
    /\ txpc' = "done"
    /\ UNCHANGED <<branchData, cmd, status, description, branch, queried, new_branch_name, calls,
                   generated, loopVars, extractVars>>

\* line 393: the branch_merge request raises
MergeRaise ==
    /\ txpc = "MERGE"
    /\ requests' = Append(requests, Request("branch_merge", new_branch_name, "http_error"))
    /\ outcome' = "raised"
    /\ txpc' = "done"
    /\ UNCHANGED <<mainData, branches, branchData, cmd, status, description, branch, queried, new_branch_name,
                   console, calls, generated, loopVars, extractVars>>

\* lines 624-632: the query on the given branch answered with the interface
UpdateQueryOk ==
    /\ txpc = "QUERY_INTERFACE"
    /\ StateOf(branch) = "open"
    /\ requests' = Append(requests, Request("query", branch, "ok"))
    /\ console' = Append(console, "Updating description")
    /\ txpc' = "UPDATE"
    /\ UNCHANGED <<mainData, branches, branchData, cmd, status, description, branch, queried,
                   new_branch_name, outcome, calls, generated, loopVars, extractVars>>

\* line 393, or line 631 on a body without the interface: the query raises
UpdateQueryRaise ==
    /\ txpc = "QUERY_INTERFACE"
    /\ \E a \in {"errors", "http_error"} :
          requests' = Append(requests, Request("query", branch, a))
    /\ outcome' = "raised"
    /\ txpc' = "done"
    /\ UNCHANGED <<mainData, branches, branchData, cmd, status, description, branch, queried,
                   new_branch_name, console, calls, generated, loopVars, extractVars>>

\* lines 634-650: the description mutation gets a body
UpdateAnswered ==
    /\ txpc = "UPDATE"
    /\ \E a \in BranchAnswers(StateOf(MutationBranch(cmd))) :
          /\ requests' = Append(requests, Request("mutation", MutationBranch(cmd), a))
          /\ IF a = "ok"
             THEN Write(MutationBranch(cmd), Mutated(DataOf(MutationBranch(cmd))))
             ELSE UNCHANGED <<mainData, branchData>>
          /\ console' = console \o UpdateReport(a)
    /\ outcome' = "returned"
    /\ txpc' = "done"
    /\ UNCHANGED <<branches, cmd, status, description, branch, queried, new_branch_name,
                   calls, generated, loopVars, extractVars>>

\* line 393: the description mutation raises
UpdateRaise ==
    /\ txpc = "UPDATE"
    /\ requests' = Append(requests, Request("mutation", MutationBranch(cmd), "http_error"))
    /\ outcome' = "raised"
    /\ txpc' = "done"
    /\ UNCHANGED <<mainData, branches, branchData, cmd, status, description, branch, queried,
                   new_branch_name, console, calls, generated, loopVars, extractVars>>

TxInit ==
    /\ TxIdle
    /\ ExtractIdle
    /\ sot = <<>>
    /\ device = [a \in Addrs |-> Absent]
    /\ LoopInit

TxNext ==
    \/ Invoke
    \/ QueryOk
    \/ NothingToChange
    \/ QueryRaise
    \/ CreateAnswered
    \/ CreateRaise
    \/ MutateAnswered
    \/ MutateRaise
    \/ MergeAnswered
    \/ MergeRaise
    \/ UpdateQueryOk
    \/ UpdateQueryRaise
    \/ UpdateAnswered
    \/ UpdateRaise

SpecTx == TxInit /\ [][TxNext]_vars

\* the requests of this invocation of a kind, by position
Positions(kind) == {n \in 1..Len(requests) : requests[n].kind = kind}

\* C1: when the mutation is answered with an errors array, no branch_merge request
\* is issued for the branch, the branch is not merged and no success is reported.
C1_NoMergeAfterMutationError ==
    \A m \in Positions("mutation") :
        requests[m].answer = "errors" =>
            /\ \A n \in Positions("branch_merge") : requests[n].branch # requests[m].branch
            /\ StateOf(requests[m].branch) # "merged"
            /\ \A l \in 1..Len(console) : console[l] # "SUCCESS"

\* C6: when the branch_create request is answered with an error (an errors array,
\* ok false, or a failed request), no mutation and no merge request follows.
C6_NothingAfterCreateError ==
    \A c \in Positions("branch_create") :
        requests[c].answer # "ok" =>
            \A n \in Positions("mutation") \cup Positions("branch_merge") : n < c

\* C9: an invocation that sent the merge request and has ended printed SUCCESS only
\* for a merge answered without errors and with ok true, and reported every other
\* merge answer as an error (printed ERROR, or raised to the caller).
C9_MergeOutcomeReported ==
    (txpc = "done" /\ Positions("branch_merge") # {}) =>
        \A n \in Positions("branch_merge") :
            /\ (\E l \in 1..Len(console) : console[l] = "SUCCESS") => requests[n].answer = "ok"
            /\ requests[n].answer # "ok" =>
                  \/ \E l \in 1..Len(console) : console[l] = "ERROR"
                  \/ outcome = "raised"

\* ============================================================ later claims
\* C11: an update whose path has no [neighbor-address=X] segment makes the
\* extraction raise; it is never skipped or turned into a record: the cycle stops
\* there, with no snapshot to compare against, nothing logged and no set sent.
C11_KeylessUpdateAborts ==
    (\E k \in 1..Len(device_sessions) : NeighborKeys(device_sessions[k].path) = {}) =>
        /\ pc = "RAISED"
        /\ raisedIn = "EXTRACT"
        /\ device_bgp_config = <<>>
        /\ sent = <<>>
        /\ events = <<>>

C11_Witness ==
    /\ raisedIn = "EXTRACT"
    /\ Len(device_sessions) >= 2
    /\ Len(infrahub_bgp_config) > 0
    /\ cycle > 1

\* C12 as claimed: every invocation that has ended issued exactly one branch_create
\* request, whatever its outcome.
C12_ExactlyOneCreate ==
    (txpc = "done" /\ cmd \in {"admin", "circuit"}) =>
        Cardinality(Positions("branch_create")) = 1

\* C12 as amended: an invocation issues at most one branch_create request, and one
\* that has ended issued it exactly when its first query was answered and there was
\* something to change; none when the query failed or the circuit already had the
\* status.
C12_OneCreateWhenReached ==
    cmd \in {"admin", "circuit"} =>
        /\ Cardinality(Positions("branch_create")) <= 1
        /\ txpc = "done" =>
              (Cardinality(Positions("branch_create")) = 1
                  <=> /\ requests[1].answer = "ok"
                      /\ ~(cmd = "circuit" /\ queried = status))

C12_Witness ==
    /\ txpc = "done"
    /\ outcome = "returned False"
    /\ Positions("branch_create") = {}
    /\ calls > 1

AllPresentLogged == \E l \in 1..Len(events) : events[l].kind = "ALL_PRESENT"

\* C13: a completed cycle has logged that all sessions are present exactly when no
\* intended session was missing from or differed on the device, that is when it
\* sent no set, also after a cycle that sent some; and a cycle that logged it is at
\* its sleep.
C13_AllPresentIffNothingNeeded ==
    /\ AllPresentLogged => pc = "SLEEP"
    /\ CycleCompleted =>
          /\ AllPresentLogged <=> sent = <<>>
          /\ AllPresentLogged <=>
                \A k \in 1..Len(Intended) : OnDevice(k) /\ ConfigEqual(k)

C13_Witness ==
    /\ CycleCompleted
    /\ cycle > 1
    /\ prevOps > 0
    /\ AllPresentLogged
    /\ Len(Intended) > 0

\* the last request of the invocation after a step that sent one
SentRequest(kind) ==
    /\ Len(requests') = Len(requests) + 1
    /\ requests'[Len(requests')].kind = kind

\* C14 as stated: every mutation of change_admin_status, change_circuit_status and
\* update_description is sent to a branch this invocation created, and the data of
\* main changes only at a merge.
C14_EveryWriteThroughNewBranch ==
    /\ [](\A m \in Positions("mutation") :
              /\ requests[m].branch # Main
              /\ \E c \in Positions("branch_create") :
                    /\ c < m
                    /\ requests[c].branch = requests[m].branch
                    /\ requests[c].answer = "ok")
    /\ [][mainData' # mainData => SentRequest("branch_merge")]_vars

\* C14: change_admin_status and change_circuit_status send their mutation only to
\* the branch name generated in the invocation, after its branch_create request,
\* never to main, and they change main only at a merge; update_description sends
\* no branch_create and no branch_merge, its mutation goes to the branch it was
\* given, and it changes main only when that branch is main.
C14_WriteTargets ==
    /\ [](/\ cmd \in {"admin", "circuit"} =>
                \A m \in Positions("mutation") :
                    /\ requests[m].branch = new_branch_name
                    /\ requests[m].branch \in BranchNames
                    /\ \E c \in Positions("branch_create") :
                          c < m /\ requests[c].branch = requests[m].branch
          /\ cmd = "description" =>
                /\ Positions("branch_create") = {}
                /\ Positions("branch_merge") = {}
                /\ \A m \in Positions("mutation") : requests[m].branch = branch)
    /\ [][mainData' # mainData =>
             \/ cmd \in {"admin", "circuit"} /\ SentRequest("branch_merge")
             \/ cmd = "description" /\ branch = Main /\ SentRequest("mutation")]_vars

C14_Witness ==
    /\ cmd = "description"
    /\ branch = Main
    /\ txpc = "done"
    /\ \E m \in Positions("mutation") : requests[m].answer = "ok"
    /\ mainData.description = description
    /\ calls > 1

\* C15: the branch names generated by the invocations are all different.
C15_NamesNeverReused ==
    \A m, n \in 1..Len(generated) : m # n => generated[m] # generated[n]

\* the intended session k is missing from the snapshot or differs from it
NeedsSet(k) == ~OnDevice(k) \/ ~ConfigEqual(k)
SetsFor(k) == {n \in 1..Len(sent) : sent[n].idx = k}

\* C16 as stated: while a cycle runs, no set has been sent before every intended
\* record has been compared against the snapshot.
C16_AllComparedBeforeAnySet ==
    (pc \in {"OUTER", "INNER", "SLEEP"} /\ sent # <<>>) => i > Len(Intended)

\* C16: a cycle sends no set before both fetches are done; from then on it takes
\* the intended records one at a time, in order, compares the record against the
\* snapshot of the start of the cycle and sends its set at once: every record
\* already passed has its set exactly when it needed one, the record being
\* compared has one only if it needs one, and no later record has one.
C16_ComparedAndAppliedInTurn ==
    /\ pc \in {"FETCH_INTENDED", "FETCH_ACTUAL"} => sent = <<>>
    /\ pc \in {"OUTER", "INNER", "SLEEP"} =>
          \A k \in 1..Len(Intended) :
              /\ k < i => (SetsFor(k) # {} <=> NeedsSet(k))
              /\ k = i => (SetsFor(k) # {} => NeedsSet(k))
              /\ k > i => SetsFor(k) = {}

C16_Witness ==
    /\ pc = "INNER"
    /\ i <= Len(Intended)
    /\ SetsFor(i) = {}
    /\ \E k \in 1..Len(Intended) : k < i /\ SetsFor(k) # {}
    /\ NeedsSet(i)

\* C17 as stated: however many cycles run, one device connection is opened in all
\* and at most one is open at any time.
C17_OneConnectionForTheLoop ==
    /\ gc.opened <= 1
    /\ gc.open <= 1

\* C17: every cycle that reaches the device opens a connection of its own and
\* closes it before it sleeps: at most one is open at any time, none is open
\* during the fetch of the intended set or the sleep, and a loop that no exception
\* has ended has opened one connection for each cycle that got to the device.
C17_OneConnectionPerCycle ==
    /\ gc.open <= 1
    /\ gc.open = 1 <=> pc \in {"OUTER", "INNER"}
    /\ pc # "RAISED" =>
          gc.opened = IF pc \in {"FETCH_INTENDED", "FETCH_ACTUAL"} THEN cycle - 1 ELSE cycle

C17_Witness ==
    /\ pc = "SLEEP"
    /\ cycle > 1
    /\ gc.opened = cycle
    /\ gc.open = 0

\* the place of the neighbor a set call addresses in the intended set as fetched
PlaceOf(call) ==
    CHOOSE k \in 1..Len(infrahub_bgp_config) :
        infrahub_bgp_config[k].address = <<TargetAddress(call.op[1])>>

\* C18: the sets of a cycle are sent in the order of the intended set, each call
\* carrying the one operation of one intended session: of two calls the earlier
\* addresses the earlier intended session, and of two intended sessions that both
\* need a set the earlier one has got its call first once the cycle has compared
\* them all.
C18_SetsInIntendedOrder ==
    /\ \A n \in 1..Len(sent) :
          /\ Len(sent[n].update) = 1
          /\ \E k \in 1..Len(infrahub_bgp_config) :
                infrahub_bgp_config[k].address = <<TargetAddress(sent[n].op[1])>>
    /\ \A n, m \in 1..Len(sent) : n < m => PlaceOf(sent[n]) < PlaceOf(sent[m])
    /\ CycleCompleted =>
          \A k, l \in 1..Len(infrahub_bgp_config) :
              (k < l /\ NeedsSet(k) /\ NeedsSet(l)) =>
                  \E n, m \in 1..Len(sent) :
                      /\ n < m
                      /\ PlaceOf(sent[n]) = k
                      /\ PlaceOf(sent[m]) = l

C18_Witness ==
    /\ CycleCompleted
    /\ Len(sent) >= 2
    /\ \E n \in 1..Len(sent) : sent[n].kind = "UPDATED"
    /\ \E n \in 1..Len(sent) : sent[n].kind = "ADDED"

====
